---- MODULE Spec2Model ----
(***************************************************************************)
(* Model of src/app.py (textintel-ai): a Streamlit script that scores the  *)
(* sentiment of a text with a lemma lexicon, detects skills with a token   *)
(* matcher, highlights the named entities with a regular expression and    *)
(* keeps the results of the session in a history list.                     *)
(*                                                                         *)
(* A Python str is modelled as a sequence of one-character strings, so     *)
(* that strip(), split(), lower(), sorting and the regular expression are  *)
(* computed character by character, as the interpreter computes them.      *)
(***************************************************************************)
EXTENDS Integers, Sequences, FiniteSets, TLC

VARIABLES text, button, warning, nlpCalls, history, view, recent,
          hlText, hlEntities, hlOut, hlDone

vars == <<text, button, warning, nlpCalls, history, view, recent,
          hlText, hlEntities, hlOut, hlDone>>

appVars == <<text, button, warning, nlpCalls, history, view, recent>>
hlVars == <<hlText, hlEntities, hlOut, hlDone>>

(***************************************************************************)
(* Characters                                                              *)
(***************************************************************************)
UpperCase == <<"A","B","C","D","E","F","G","H","I","J","K","L","M",
               "N","O","P","Q","R","S","T","U","V","W","X","Y","Z">>
LowerCase == <<"a","b","c","d","e","f","g","h","i","j","k","l","m",
               "n","o","p","q","r","s","t","u","v","w","x","y","z">>
Digits == {"0","1","2","3","4","5","6","7","8","9"}

Range(s) == {s[i] : i \in DOMAIN s}

IndexIn(s, c) == CHOOSE i \in DOMAIN s : s[i] = c

UpperLetters == Range(UpperCase)
LowerLetters == Range(LowerCase)
ToLower == [c \in UpperLetters |-> LowerCase[IndexIn(UpperCase, c)]]

\* str.lower() on one character (ASCII letters).
LowerChar(c) == IF c \in UpperLetters THEN ToLower[c] ELSE c

\* str.lower()
Lower(s) == [i \in DOMAIN s |-> LowerChar(s[i])]

\* The characters Python's str.strip() and str.split() treat as whitespace.
Whitespace == {" ", "\t", "\n", "\r", "\f"}

\* The characters \w matches: letters, digits and the underscore.
WordChars == UpperLetters \cup LowerLetters \cup Digits \cup {"_"}
IsWordChar(c) == c \in WordChars

\* The code point of a character: the order Python compares strings by.
CodePoint(c) ==
    IF c \in UpperLetters THEN 64 + IndexIn(UpperCase, c)
    ELSE IF c \in LowerLetters THEN 96 + IndexIn(LowerCase, c)
    ELSE CASE c = "\t" -> 9  [] c = "\n" -> 10 [] c = "\f" -> 12 [] c = "\r" -> 13
           [] c = " " -> 32  [] c = "(" -> 40  [] c = ")" -> 41  [] c = "." -> 46
           [] c = "/" -> 47  [] c = "<" -> 60  [] c = ">" -> 62  [] c = "\\" -> 92
           [] c = "_" -> 95

\* s1 < s2 for two Python strings: by code point, a proper prefix first.
RECURSIVE StrLess(_, _)
StrLess(a, b) ==
    IF b = <<>> THEN FALSE
    ELSE IF a = <<>> THEN TRUE
    ELSE IF a[1] # b[1] THEN CodePoint(a[1]) < CodePoint(b[1])
    ELSE StrLess(Tail(a), Tail(b))

\* s[i:j] of Python with 1-based, inclusive bounds.
Slice(s, i, j) == SubSeq(s, i, j)

RECURSIVE Concat(_)
Concat(ss) == IF ss = <<>> THEN <<>> ELSE ss[1] \o Concat(Tail(ss))

(***************************************************************************)
(* re: the part of Python's regular expressions that highlight_entities    *)
(* uses.  re.escape, the pattern parser and re.sub are modelled separately *)
(* so that the escaping is something the matcher depends on.               *)
(***************************************************************************)
\* re._special_chars_map: the characters re.escape puts a backslash before.
SpecialChars == {"(", ")", "[", "]", "{", "}", "?", "*", "+", "-", "|", "^", "$",
                 "\\", ".", "&", "~", "#", " ", "\t", "\n", "\r", "\f"}

\* A wrong escape: the value goes into the pattern as it is.
reEscapeNone(value) == value

\* re.escape(value)
reEscape(value) ==
    Concat([i \in DOMAIN value |->
              IF value[i] \in SpecialChars THEN <<"\\", value[i]>> ELSE <<value[i]>>])

\* rf"\b({re.escape(value)})\b"
PatternFor(value) == <<"\\", "b", "(">> \o reEscape(value) \o <<")", "\\", "b">>

\* The pattern as a sequence of elements: "bound" is \b, "lit" one literal
\* character, "any" the unescaped dot, "open" and "close" a group's
\* parentheses, "err" a backslash with nothing after it.
Elem(t, c) == [t |-> t, c |-> c]

RECURSIVE ParseFrom(_, _)
ParseFrom(p, i) ==
    IF i > Len(p) THEN <<>>
    ELSE IF p[i] = "\\"
         THEN IF i = Len(p) THEN <<Elem("err", "")>>
              ELSE IF p[i+1] = "b" THEN <<Elem("bound", "")>> \o ParseFrom(p, i + 2)
              ELSE <<Elem("lit", p[i+1])>> \o ParseFrom(p, i + 2)
    ELSE IF p[i] = "." THEN <<Elem("any", "")>> \o ParseFrom(p, i + 1)
    ELSE IF p[i] = "(" THEN <<Elem("open", "")>> \o ParseFrom(p, i + 1)
    ELSE IF p[i] = ")" THEN <<Elem("close", "")>> \o ParseFrom(p, i + 1)
    ELSE <<Elem("lit", p[i])>> \o ParseFrom(p, i + 1)

\* The nesting depth after the elements i.. , or -1 when a group closes that
\* was never opened.
RECURSIVE DepthFrom(_, _, _)
DepthFrom(es, i, d) ==
    IF d < 0 THEN -1
    ELSE IF i > Len(es) THEN d
    ELSE IF es[i].t = "open" THEN DepthFrom(es, i + 1, d + 1)
    ELSE IF es[i].t = "close" THEN DepthFrom(es, i + 1, d - 1)
    ELSE DepthFrom(es, i + 1, d)

\* re.compile raises re.error: unbalanced parentheses, or a bad escape.
CompileFails(es) ==
    \/ \E i \in DOMAIN es : es[i].t = "err"
    \/ DepthFrom(es, 1, 0) # 0

\* \b at position pos of s: between s[pos-1] and s[pos], one of them a word
\* character and the other not (the ends of s count as non-word).
IsWordAt(s, pos) == pos \in DOMAIN s /\ IsWordChar(s[pos])
Boundary(s, pos) == IsWordAt(s, pos - 1) # IsWordAt(s, pos)

\* Matches the elements k.. at position pos of s; the position after the
\* match, or 0 when there is none.  No element repeats or alternates, so
\* there is nothing to backtrack over.
RECURSIVE MatchFrom(_, _, _, _, _)
MatchFrom(es, k, s, pos, ignorecase) ==
    IF k > Len(es) THEN pos
    ELSE LET e == es[k] IN
         IF e.t = "bound"
         THEN IF Boundary(s, pos) THEN MatchFrom(es, k + 1, s, pos, ignorecase) ELSE 0
         ELSE IF e.t = "lit"
         THEN IF /\ pos <= Len(s)
                 /\ IF ignorecase THEN LowerChar(s[pos]) = LowerChar(e.c)
                                  ELSE s[pos] = e.c
              THEN MatchFrom(es, k + 1, s, pos + 1, ignorecase) ELSE 0
         ELSE IF e.t = "any"
         THEN IF pos <= Len(s) /\ s[pos] # "\n"
              THEN MatchFrom(es, k + 1, s, pos + 1, ignorecase) ELSE 0
         ELSE MatchFrom(es, k + 1, s, pos, ignorecase)

\* The number of characters the elements 1..k consume.
Consumed(es, k) == Cardinality({j \in 1..k : es[j].t \in {"lit", "any"}})

\* Group 1: the first "(" and the ")" that closes it.
FirstOpen(es) == CHOOSE i \in DOMAIN es :
                    es[i].t = "open" /\ \A j \in 1..(i-1) : es[j].t # "open"
CloseOf(es, o) == CHOOSE c \in (o+1)..Len(es) :
                    /\ es[c].t = "close"
                    /\ DepthFrom(SubSeq(es, o, c), 1, 0) = 0
                    /\ \A d \in (o+1)..(c-1) : DepthFrom(SubSeq(es, o, d), 1, 0) > 0

\* \1 of a match that starts at pos.
Group1(es, s, pos) ==
    LET o == FirstOpen(es)
        c == CloseOf(es, o)
    IN  Slice(s, pos + Consumed(es, o), pos + Consumed(es, c) - 1)

\* r"<mark>\1</mark>" for a match that starts at pos.
MarkOpen == <<"<", "m", "a", "r", "k", ">">>
MarkClose == <<"<", "/", "m", "a", "r", "k", ">">>
Replacement(es, s, pos) == MarkOpen \o Group1(es, s, pos) \o MarkClose

\* The positions from pos on where the pattern matches.
MatchStarts(es, s, pos, ignorecase) ==
    {p \in pos..(Len(s) + 1) : MatchFrom(es, 1, s, p, ignorecase) # 0}

\* re.sub scanning from pos: the text up to the leftmost match is copied, the
\* match replaced, and the scan goes on after it (one character further on
\* after an empty match), so that the matches replaced do not overlap.
RECURSIVE SubFrom(_, _, _, _)
SubFrom(es, s, pos, ignorecase) ==
    LET starts == MatchStarts(es, s, pos, ignorecase) IN
    IF starts = {} THEN Slice(s, pos, Len(s))
    ELSE LET p == CHOOSE a \in starts : \A b \in starts : a <= b
             end == MatchFrom(es, 1, s, p, ignorecase)
         IN  IF end = p
             THEN Slice(s, pos, p - 1) \o Replacement(es, s, p)
                    \o (IF p > Len(s) THEN <<>>
                        ELSE <<s[p]>> \o SubFrom(es, s, p + 1, ignorecase))
             ELSE Slice(s, pos, p - 1) \o Replacement(es, s, p)
                    \o SubFrom(es, s, end, ignorecase)

\* What a call that raised leaves in place of a string.
ReError == <<"re.error">>

\* re.sub(pattern, r"<mark>\1</mark>", s, flags=re.IGNORECASE)
reSub(pattern, s, ignorecase) ==
    LET es == ParseFrom(pattern, 1) IN
    IF CompileFails(es) THEN ReError ELSE SubFrom(es, s, 1, ignorecase)


(***************************************************************************)
(* highlight_entities                                                      *)
(***************************************************************************)
\* A wrong pass: the substitution reads the original text, not the text the
\* earlier entities have already rewritten.
HighlightPassOnText(original, highlighted, value) ==
    reSub(PatternFor(value), original, TRUE)

\* One iteration of the loop: highlighted = re.sub(rf"\b(...)\b", ..., highlighted,
\* flags=re.IGNORECASE).
HighlightPass(original, highlighted, value) ==
    reSub(PatternFor(value), highlighted, TRUE)

\* The loop over the entities from the i-th on; an exception of re.sub ends it.
RECURSIVE HighlightLoop(_, _, _, _)
HighlightLoop(original, highlighted, entities, i) ==
    IF i > Len(entities) THEN highlighted
    ELSE LET next == HighlightPass(original, highlighted, entities[i][2]) IN
         IF next = ReError THEN ReError
         ELSE HighlightLoop(original, next, entities, i + 1)

\* highlight_entities(text, entities); an entity is a pair <<label, value>>.
highlight_entities(txt, entities) == HighlightLoop(txt, txt, entities, 1)

(***************************************************************************)
(* The document: nlp(text).  spaCy's pipeline is a dependency of the       *)
(* script; what the script reads of a Doc is modelled: the tokens with     *)
(* their offsets in the text, each token's text, lower_ and lemma_, the    *)
(* text of a span, and the entity spans.                                   *)
(***************************************************************************)
\* The end of the run of word characters that starts at pos.
RunEnd(s, pos) ==
    CHOOSE e \in pos..Len(s) :
        /\ \A j \in pos..e : IsWordChar(s[j])
        /\ e = Len(s) \/ ~IsWordChar(s[e + 1])

\* The tokenizer: whitespace separates tokens, a run of word characters is
\* one token and any other character a token of its own.
RECURSIVE TokensFrom(_, _)
TokensFrom(s, pos) ==
    IF pos > Len(s) THEN <<>>
    ELSE IF s[pos] \in Whitespace THEN TokensFrom(s, pos + 1)
    ELSE IF IsWordChar(s[pos])
         THEN <<[start |-> pos, end |-> RunEnd(s, pos)]>>
                \o TokensFrom(s, RunEnd(s, pos) + 1)
    ELSE <<[start |-> pos, end |-> pos]>> \o TokensFrom(s, pos + 1)

\* doc = nlp(text)
nlp(txt) == [text |-> txt, tokens |-> TokensFrom(txt, 1)]

NumTokens(doc) == Len(doc.tokens)

\* token.text
TokenText(doc, i) == Slice(doc.text, doc.tokens[i].start, doc.tokens[i].end)

\* doc[s:e].text for the tokens s..e (1-based, both included): the text from
\* the first token to the last, with the whitespace between them.
SpanText(doc, s, e) == Slice(doc.text, doc.tokens[s].start, doc.tokens[e].end)

\* The lemmatizer: the inflected forms it reduces to a base form; every
\* other token is its own lemma.
Inflected == << <<"l","o","v","e","d">>, <<"h","a","t","e","s">> >>
BaseForm == << <<"l","o","v","e">>, <<"h","a","t","e">> >>

\* token.lemma_
Lemma(doc, i) ==
    LET w == TokenText(doc, i) IN
    IF Lower(w) \in Range(Inflected) THEN BaseForm[IndexIn(Inflected, Lower(w))] ELSE w

(***************************************************************************)
(* Skill matcher                                                           *)
(***************************************************************************)
skills == << <<"p","y","t","h","o","n">>,
             <<"s","p","a","c","y">>,
             <<"n","l","p">>,
             <<"m","a","c","h","i","n","e"," ","l","e","a","r","n","i","n","g">>,
             <<"d","o","c","k","e","r">>,
             <<"a","w","s">>,
             <<"s","q","l">> >>

\* The end of the run of non-whitespace characters that starts at pos.
WordEnd(s, pos) ==
    CHOOSE e \in pos..Len(s) :
        /\ \A j \in pos..e : s[j] \notin Whitespace
        /\ e = Len(s) \/ s[e + 1] \in Whitespace

\* str.split(): the maximal runs of non-whitespace characters.
RECURSIVE SplitFrom(_, _)
SplitFrom(s, pos) ==
    IF pos > Len(s) THEN <<>>
    ELSE IF s[pos] \in Whitespace THEN SplitFrom(s, pos + 1)
    ELSE <<Slice(s, pos, WordEnd(s, pos))>> \o SplitFrom(s, WordEnd(s, pos) + 1)

Split(s) == SplitFrom(s, 1)

\* patterns = [[{"LOWER": tok} for tok in skill.split()] for skill in skills]
patterns == [k \in DOMAIN skills |-> Split(skills[k])]

\* A wrong token test: the pattern word only has to occur inside the token.
TokenMatchesSubstring(lowered, word) ==
    \E i \in 1..(Len(lowered) - Len(word) + 1) :
        Slice(lowered, i, i + Len(word) - 1) = word

\* {"LOWER": word}: the token's lowercase form is the pattern's word.
TokenMatches(lowered, word) == lowered = word

\* The window of tokens s..e matches the pattern p.
WindowMatches(doc, s, e, p) ==
    /\ e - s + 1 = Len(p)
    /\ \A j \in 1..Len(p) : TokenMatches(Lower(TokenText(doc, s + j - 1)), p[j])

\* matcher(doc): the token windows <<s, e>> some pattern matches, from left
\* to right.
MatchSet(doc) ==
    {w \in (1..NumTokens(doc)) \X (1..NumTokens(doc)) :
        /\ w[1] <= w[2]
        /\ \E k \in DOMAIN patterns : WindowMatches(doc, w[1], w[2], patterns[k])}

WindowBefore(a, b) == a[1] < b[1] \/ (a[1] = b[1] /\ a[2] < b[2])

RECURSIVE InOrder(_)
InOrder(ws) ==
    IF ws = {} THEN <<>>
    ELSE LET first == CHOOSE a \in ws : \A b \in ws \ {a} : WindowBefore(a, b)
         IN  <<first>> \o InOrder(ws \ {first})

matcher(doc) == InOrder(MatchSet(doc))

\* A wrong set(): every element kept.
PySetKeepAll(xs) == xs

\* set(xs), as the sequence of the distinct elements of xs.
PySet(xs) ==
    LET firsts == {i \in DOMAIN xs : \A j \in 1..(i-1) : xs[j] # xs[i]}
        RECURSIVE Pick(_)
        Pick(i) == IF i > Len(xs) THEN <<>>
                   ELSE IF i \in firsts THEN <<xs[i]>> \o Pick(i + 1)
                   ELSE Pick(i + 1)
    IN  Pick(1)

\* A wrong sorted(): the elements in the order they came.
SortedAsGiven(xs) == xs

\* Puts x into the ascending sequence xs, after the elements equal to it.
RECURSIVE InsertSorted(_, _)
InsertSorted(x, xs) ==
    IF xs = <<>> THEN <<x>>
    ELSE IF StrLess(x, xs[1]) THEN <<x>> \o xs
    ELSE <<xs[1]>> \o InsertSorted(x, Tail(xs))

RECURSIVE SortFrom(_, _)
SortFrom(xs, i) ==
    IF i > Len(xs) THEN <<>> ELSE InsertSorted(xs[i], SortFrom(xs, i + 1))

\* sorted(xs) for strings
Sorted(xs) == SortFrom(xs, 1)

\* found_skills = sorted(set(doc[s:e].text for _, s, e in matches))
found_skills(doc) ==
    LET matches == matcher(doc) IN
    Sorted(PySet([i \in DOMAIN matches |-> SpanText(doc, matches[i][1], matches[i][2])]))


(***************************************************************************)
(* Sentiment                                                               *)
(***************************************************************************)
pos_words == { <<"l","o","v","e">>, <<"g","r","e","a","t">>,
               <<"a","m","a","z","i","n","g">>, <<"g","o","o","d">>,
               <<"e","x","c","e","l","l","e","n","t">> }
neg_words == { <<"b","a","d">>, <<"h","a","t","e">>, <<"p","o","o","r">>,
               <<"t","e","r","r","i","b","l","e">> }

\* sum(1 for t in doc if t.lemma_.lower() in words)
CountLemmas(doc, words) ==
    Cardinality({i \in 1..NumTokens(doc) : Lower(Lemma(doc, i)) \in words})

\* total = pos + neg if pos + neg else 1
Total(pos, neg) == IF pos + neg # 0 THEN pos + neg ELSE 1

\* A wrong tie-break: a tie is Negative.
SentimentLabelStrict(pos, neg) == IF pos > neg THEN "Positive" ELSE "Negative"

\* sentiment = "Positive" if pos >= neg else "Negative"
SentimentLabel(pos, neg) == IF pos >= neg THEN "Positive" ELSE "Negative"

Max(a, b) == IF a >= b THEN a ELSE b
Min(a, b) == IF a <= b THEN a ELSE b

\* A wrong rounding: the digits after the second decimal are cut off.
Round2Truncate(num, den) == (num * 100) \div den

\* round(num / den, 2) in hundredths, for num >= 0 and den > 0: to the nearest
\* hundredth, a tie to the even one.  (The quotients of the model are exact
\* in the arithmetic of the rationals; the script computes them in floats.)
Round2(num, den) ==
    LET q == (num * 100) \div den
        r == (num * 100) % den
    IN  IF 2 * r < den THEN q
        ELSE IF 2 * r > den THEN q + 1
        ELSE IF q % 2 = 0 THEN q ELSE q + 1

\* A wrong confidence: the share the minority does not have, which is the
\* same number unless there is no signal at all.
ConfidenceComplement(pos, neg, total) == Round2((total - Min(pos, neg)) * 100, total)

\* confidence = round(max(pos, neg) / total * 100, 2), in hundredths of a
\* percent: 5000 is 50.0.
Confidence(pos, neg, total) == Round2(Max(pos, neg) * 100, total)

(***************************************************************************)
(* Named entities: doc.ents.  The recognizer is a pretrained model; the    *)
(* model lets it return any entities in document order that do not         *)
(* overlap, each a span of one or two capitalized tokens.                  *)
(***************************************************************************)
MaxEnts == 2
EntLabels == {"ORG"}

IsCapitalized(doc, i) == TokenText(doc, i)[1] \in UpperLetters

EntitySpans(doc) ==
    {w \in (1..NumTokens(doc)) \X (1..NumTokens(doc)) :
        /\ w[1] <= w[2] /\ w[2] <= w[1] + 1
        /\ \A i \in w[1]..w[2] : IsCapitalized(doc, i)}

\* The possible values of [(ent.label_, ent.text) for ent in doc.ents].
NerOutputs(doc) ==
    UNION {
      { [i \in 1..n |-> <<f[i][2], SpanText(doc, f[i][1][1], f[i][1][2])>>] :
          f \in {g \in [1..n -> EntitySpans(doc) \X EntLabels] :
                    \A i \in 1..(n-1) : g[i][1][2] < g[i+1][1][1]} }
      : n \in 0..MaxEnts }

(***************************************************************************)
(* The script: one run per user action                                     *)
(***************************************************************************)
\* The characters of s from the first to the last that is not whitespace.
Strip(s) ==
    LET keep == {i \in DOMAIN s : s[i] \notin Whitespace} IN
    IF keep = {} THEN <<>>
    ELSE Slice(s, CHOOSE i \in keep : \A j \in keep : i <= j,
                  CHOOSE i \in keep : \A j \in keep : i >= j)

\* A wrong guard: only the empty string counts as no input.
IsEmptyInputNoStrip(txt) == txt = <<>>

\* not text.strip()
IsEmptyInput(txt) == Strip(txt) = <<>>

\* The result record of one analysis.
AnalysisResult(txt, doc, entities) ==
    LET pos == CountLemmas(doc, pos_words)
        neg == CountLemmas(doc, neg_words)
        total == Total(pos, neg)
    IN  [text |-> txt,
         sentiment |-> SentimentLabel(pos, neg),
         confidence |-> Confidence(pos, neg, total),
         skills |-> found_skills(doc),
         entities |-> entities]

RecentCount == 3
PreviewLen == 80

\* Wrong slices of the history: its first entries, or its last in the order
\* they were made.
RecentFirst(h) ==
    LET n == Min(RecentCount, Len(h)) IN [i \in 1..n |-> h[n - i + 1]]

\* reversed(st.session_state.history[-3:])
RecentSlice(h) ==
    LET n == Min(RecentCount, Len(h)) IN [i \in 1..n |-> h[Len(h) - i + 1]]

\* One line of the Recent Analyses card.
RecentLine(item) ==
    <<item.sentiment, item.confidence, Slice(item.text, 1, Min(PreviewLen, Len(item.text)))>>

\* The Recent Analyses card; nothing is shown for an empty history.
RecentAnalyses(h) == [i \in DOMAIN RecentSlice(h) |-> RecentLine(RecentSlice(h)[i])]

\* st.session_state.history.append(result)
HistoryAppend(h, result) == Append(h, result)

\* The user changes the text area: the script reruns without the button.
EnterText(t) ==
    /\ text' = t
    /\ button' = FALSE
    /\ warning' = FALSE
    /\ view' = <<>>
    /\ recent' = RecentAnalyses(history)
    /\ UNCHANGED <<nlpCalls, history, hlVars>>

\* The user presses Analyze Text: the script reruns with the button set.  cap
\* bounds the number of analyses of one session.
ClickAnalyze(cap) ==
    /\ button' = TRUE
    /\ text' = text
    /\ IF IsEmptyInput(text)
       THEN /\ warning' = TRUE
            /\ view' = <<>>
            /\ UNCHANGED <<nlpCalls, history>>
       ELSE /\ Len(history) < cap
            /\ \E entities \in NerOutputs(nlp(text)) :
                 LET doc == nlp(text)
                     result == AnalysisResult(text, doc, entities)
                 IN  /\ history' = HistoryAppend(history, result)
                     /\ view' = <<[sentiment |-> result.sentiment,
                                   confidence |-> result.confidence,
                                   skills |-> result.skills,
                                   entities |-> result.entities,
                                   highlighted |-> highlight_entities(text, entities)]>>
            /\ warning' = FALSE
            /\ nlpCalls' = nlpCalls + 1
    /\ recent' = RecentAnalyses(history')
    /\ UNCHANGED hlVars

(***************************************************************************)
(* Inputs                                                                  *)
(***************************************************************************)
RECURSIVE JoinWords(_)
JoinWords(ws) ==
    IF ws = <<>> THEN <<>>
    ELSE IF Len(ws) = 1 THEN ws[1]
    ELSE ws[1] \o <<" ">> \o JoinWords(Tail(ws))

\* "I love Python and hate Docker."
Scenario == <<"I"," ","l","o","v","e"," ","P","y","t","h","o","n"," ","a","n","d"," ",
              "h","a","t","e"," ","D","o","c","k","e","r",".">>

\* The texts of a session: empty, whitespace only, and a few to analyse.
SessionTexts == { <<>>, <<" ", "\n", " ">>,
                  <<"P","y","t","h","o","n">>,
                  <<"s","q","l"," ","s","q","l">>,
                  <<"h","a","t","e"," ","S","Q","L">> }

MaxHistory == 4

Vocabulary == { <<"P","y","t","h","o","n">>, <<"p","y","t","h","o","n">>,
                <<"p","y","t","h","o","n","i","s","t","a">>,
                <<"l","o","v","e">>, <<"L","o","v","e","d">>,
                <<"h","a","t","e">>, <<"b","a","d">>,
                <<"m","a","c","h","i","n","e">>, <<"L","e","a","r","n","i","n","g">>,
                <<".">> }

MaxWords == 3

\* The texts of a single analysis: up to MaxWords words of the vocabulary
\* with one space between them, and the scenario.
DocTexts ==
    {Scenario} \cup
    UNION { {JoinWords(ws) : ws \in [1..n -> Vocabulary]} : n \in 1..MaxWords }

HLAlphabet == {"a", "A", ".", "(", " "}
MaxTextLen == 3
HLTexts == UNION { [1..n -> HLAlphabet] : n \in 0..MaxTextLen }

HLValues == { <<"a">>, <<"a", " ", "a">>, <<".">>, <<"(", "a">>, <<"m", "a", "r", "k">> }
MaxHLEnts == 2
HLEntityLists == UNION { [1..n -> EntLabels \X HLValues] : n \in 0..MaxHLEnts }

(***************************************************************************)
(* Specifications                                                          *)
(***************************************************************************)
InitPage(t) ==
    /\ text = t
    /\ button = FALSE
    /\ warning = FALSE
    /\ nlpCalls = 0
    /\ history = <<>>
    /\ view = <<>>
    /\ recent = <<>>

InitHLIdle ==
    /\ hlText = <<>>
    /\ hlEntities = <<>>
    /\ hlOut = <<>>
    /\ hlDone = FALSE

\* A session: the page loads with an empty text area and an empty history.
Init == InitPage(<<>>) /\ InitHLIdle

Next ==
    \/ \E t \in SessionTexts : EnterText(t)
    \/ ClickAnalyze(MaxHistory)

Spec == Init /\ [][Next]_vars

\* A single analysis of a text in a fresh session.
InitDoc == (\E t \in DocTexts : InitPage(t)) /\ InitHLIdle

NextDoc == ClickAnalyze(1)

SpecDoc == InitDoc /\ [][NextDoc]_vars

\* highlight_entities as a function of its arguments.
InitHighlight ==
    /\ InitPage(<<>>)
    /\ hlText \in HLTexts
    /\ hlEntities \in HLEntityLists
    /\ hlOut = <<>>
    /\ hlDone = FALSE

CallHighlight ==
    /\ ~hlDone
    /\ hlOut' = highlight_entities(hlText, hlEntities)
    /\ hlDone' = TRUE
    /\ UNCHANGED <<hlText, hlEntities, appVars>>

NextHighlight == CallHighlight

SpecHighlight == InitHighlight /\ [][NextHighlight]_vars


(***************************************************************************)
(* Properties                                                              *)
(***************************************************************************)
\* Every character of s is whitespace (the empty string included).
IsBlank(s) == \A i \in DOMAIN s : s[i] \in Whitespace

\* sub occurs in s as a contiguous substring.
Contains(s, sub) ==
    \E p \in 1..(Len(s) - Len(sub) + 1) : Slice(s, p, p + Len(sub) - 1) = sub

PosOf(r) == CountLemmas(nlp(r.text), pos_words)
NegOf(r) == CountLemmas(nlp(r.text), neg_words)

\* C1: a press of Analyze with empty or whitespace-only text reports the
\* warning, does not call the NLP pipeline, shows no result and leaves the
\* history as it was.
C1_EmptyInputShortCircuits ==
    [][(button' /\ IsBlank(text'))
         => /\ warning'
            /\ nlpCalls' = nlpCalls
            /\ view' = <<>>
            /\ history' = history]_vars

\* C1 witness: Analyze was pressed on whitespace-only text after an analysis,
\* the warning is shown and the earlier result is still the whole history.
C1_Witness ==
    /\ button /\ warning
    /\ text # <<>> /\ IsBlank(text)
    /\ Len(history) = 1 /\ nlpCalls = 1

\* C2: whenever pos >= neg the label is Positive; a tie with pos = neg > 0
\* included.
C2_TieIsPositive ==
    \A i \in DOMAIN history :
        PosOf(history[i]) >= NegOf(history[i]) => history[i].sentiment = "Positive"

\* C2 witness: an analysed text with as many positive as negative lemmas, at
\* least one of each, labelled Positive.
C2_Witness ==
    \E i \in DOMAIN history :
        /\ PosOf(history[i]) = NegOf(history[i]) /\ PosOf(history[i]) > 0
        /\ history[i].sentiment = "Positive"

\* C3: with no positive and no negative lemma the result is (Positive, 0.0),
\* for an analysed text and for the empty token sequence alike; the divisor
\* is then 1.
C3_NoSignalIsPositiveZero ==
    /\ \A i \in DOMAIN history :
        (PosOf(history[i]) = 0 /\ NegOf(history[i]) = 0)
            => /\ history[i].sentiment = "Positive"
               /\ history[i].confidence = 0
    /\ NumTokens(nlp(<<>>)) = 0
    /\ AnalysisResult(<<>>, nlp(<<>>), <<>>).sentiment = "Positive"
    /\ AnalysisResult(<<>>, nlp(<<>>), <<>>).confidence = 0
    /\ Total(0, 0) = 1

\* C3 witness: an analysed non-blank text without any lexicon lemma.
C3_Witness ==
    \E i \in DOMAIN history :
        /\ PosOf(history[i]) = 0 /\ NegOf(history[i]) = 0
        /\ ~IsBlank(history[i].text)
        /\ history[i].confidence = 0

\* C4: with neg > pos the label is Negative and the confidence is
\* neg/(pos+neg)*100 to the nearest hundredth.
C4_NegativeConfidence ==
    \A i \in DOMAIN history :
        LET pos == PosOf(history[i])
            neg == NegOf(history[i])
            err == history[i].confidence * (pos + neg) - neg * 10000
        IN  neg > pos
              => /\ history[i].sentiment = "Negative"
                 /\ 2 * err <= pos + neg
                 /\ -2 * err <= pos + neg

\* C4 witness: two negative lemmas and one positive: Negative, 66.67.
C4_Witness ==
    \E i \in DOMAIN history :
        /\ PosOf(history[i]) = 1 /\ NegOf(history[i]) = 2
        /\ history[i].sentiment = "Negative"
        /\ history[i].confidence = 6667

\* C5: every result in the history has a confidence between 0 and 100, one
\* of the two labels, and no skill twice.
C5_ResultInvariant ==
    \A i \in DOMAIN history :
        /\ history[i].confidence >= 0 /\ history[i].confidence <= 10000
        /\ history[i].sentiment \in {"Positive", "Negative"}
        /\ \A j, k \in DOMAIN history[i].skills :
              j # k => history[i].skills[j] # history[i].skills[k]

\* C5 witness: after two analyses, one of a text that names a skill twice,
\* that result lists the skill once.
C5_Witness ==
    /\ Len(history) >= 2
    /\ \E i \in DOMAIN history :
        /\ Cardinality(MatchSet(nlp(history[i].text))) = 2
        /\ Len(history[i].skills) = 1

\* C6: the skills of a result are the distinct texts of the matched spans,
\* each as it stands in the source text, in ascending order; the scenario
\* text yields Docker, Python.
C6_SkillsSortedDistinctSourceSpans ==
    \A i \in DOMAIN history :
        LET r == history[i]
            doc == nlp(r.text)
        IN  /\ \A j \in 1..(Len(r.skills) - 1) : StrLess(r.skills[j], r.skills[j + 1])
            /\ Range(r.skills) = {SpanText(doc, w[1], w[2]) : w \in MatchSet(doc)}
            /\ \A j \in DOMAIN r.skills : Contains(r.text, r.skills[j])
            /\ r.text = Scenario
                 => r.skills = << <<"D","o","c","k","e","r">>, <<"P","y","t","h","o","n">> >>

\* C6 witness: the scenario text analysed, with Docker before Python, both
\* capitalized as in the text.
C6_Witness ==
    \E i \in DOMAIN history :
        /\ history[i].text = Scenario
        /\ history[i].skills = << <<"D","o","c","k","e","r">>, <<"P","y","t","h","o","n">> >>

\* C7: every reported skill is a run of whole tokens of the text that,
\* lowercased, is word for word one skill definition; a token that only
\* contains a skill word is not reported.
C7_WholeTokenMatch ==
    \A i \in DOMAIN history :
        LET r == history[i] IN
        \A j \in DOMAIN r.skills :
            LET k == r.skills[j] IN
            /\ Split(Lower(k)) \in Range(patterns)
            /\ \E p \in 1..(Len(r.text) - Len(k) + 1) :
                  /\ Slice(r.text, p, p + Len(k) - 1) = k
                  /\ ~IsWordAt(r.text, p - 1)
                  /\ ~IsWordAt(r.text, p + Len(k))

\* C7 witness: "pythonista machine Learning" analysed: the two-token phrase
\* is reported, pythonista is not.
C7_Witness ==
    \E i \in DOMAIN history :
        /\ history[i].text = JoinWords(<< <<"p","y","t","h","o","n","i","s","t","a">>,
                                          <<"m","a","c","h","i","n","e">>,
                                          <<"L","e","a","r","n","i","n","g">> >>)
        /\ history[i].skills = << <<"m","a","c","h","i","n","e"," ",
                                    "L","e","a","r","n","i","n","g">> >>

\* The value v stands at position p of s as literal text, whatever the case
\* of its letters, with a word boundary before and after it.
OccursAt(s, v, p) ==
    /\ p + Len(v) - 1 <= Len(s)
    /\ \A j \in 1..Len(v) : LowerChar(s[p + j - 1]) = LowerChar(v[j])
    /\ Boundary(s, p)
    /\ Boundary(s, p + Len(v))

\* s from position p on with the occurrences of v wrapped, taken from left to
\* right, each starting after the one before it ends.
RECURSIVE WrapFrom(_, _, _)
WrapFrom(s, v, p) ==
    LET occ == {q \in p..Len(s) : OccursAt(s, v, q)} IN
    IF occ = {} THEN Slice(s, p, Len(s))
    ELSE LET q == CHOOSE a \in occ : \A b \in occ : a <= b IN
         Slice(s, p, q - 1) \o MarkOpen \o Slice(s, q, q + Len(v) - 1) \o MarkClose
           \o WrapFrom(s, v, q + Len(v))

\* The values wrapped one after the other, each in the text the one before
\* it left.
RECURSIVE WrapAll(_, _)
WrapAll(s, values) ==
    IF values = <<>> THEN s
    ELSE WrapFrom(WrapAll(s, SubSeq(values, 1, Len(values) - 1)),
                  values[Len(values)], 1)

ValuesOf(entities) == [i \in DOMAIN entities |-> entities[i][2]]

\* C8 as stated: the call does not raise and every whole-word,
\* case-insensitive occurrence of every entity's value in the text is wrapped
\* in the result.
C8_EveryOccurrenceWrapped ==
    hlDone =>
        /\ hlOut # ReError
        /\ \A k \in DOMAIN hlEntities : \A p \in DOMAIN hlText :
              LET v == hlEntities[k][2] IN
              OccursAt(hlText, v, p)
                => Contains(hlOut, MarkOpen \o Slice(hlText, p, p + Len(v) - 1) \o MarkClose)

\* C8 amended: the call does not raise; entity by entity, in the text as the
\* earlier entities left it, it wraps the whole-word, case-insensitive
\* occurrences of the value as literal text, from left to right without
\* overlap, and copies everything else.
C8_LiteralWholeWordWrap ==
    hlDone =>
        /\ hlOut # ReError
        /\ hlOut = WrapAll(hlText, ValuesOf(hlEntities))

\* C8 witness: the values "." and "(a" found as literal text: "a.a" with the
\* entity "." gives a<mark>.</mark>a, and a text with "(a" was wrapped too.
C8_Witness ==
    /\ hlDone
    /\ \/ /\ hlText = <<"a", ".", "a">>
          /\ ValuesOf(hlEntities) = << <<".">> >>
          /\ hlOut = <<"a">> \o MarkOpen \o <<".">> \o MarkClose \o <<"a">>
       \/ /\ hlText = <<"A", "(", "a">>
          /\ ValuesOf(hlEntities) = << <<"(", "a">> >>
          /\ hlOut = <<"A">> \o MarkOpen \o <<"(", "a">> \o MarkClose

\* The result of the first k entities.
OutAfter(k) == highlight_entities(hlText, SubSeq(hlEntities, 1, k))

WordEdged(v) == v # <<>> /\ IsWordChar(v[1]) /\ IsWordChar(v[Len(v)])

TheMark == <<"m", "a", "r", "k">>

\* C9: the substitutions build on each other in the order of the entities:
\* a value listed twice in a row is wrapped again where it was wrapped, the
\* value "mark" rewrites the tags an earlier entity put in, two values of
\* which one lies inside the other give different results in the two orders,
\* and highlighting the result once more with the last entity, when its value
\* begins and ends with a word character and was found, changes it again.
C9_OrderDependentNotIdempotent ==
    hlDone =>
        LET n == Len(hlEntities)
            vals == ValuesOf(hlEntities)
        IN
        /\ hlOut = OutAfter(n)
        /\ \A k \in 2..n :
              (k = n /\ vals[k] = vals[k-1] /\ WordEdged(vals[k]) /\ vals[k] # TheMark
                 /\ OutAfter(k-1) # OutAfter(k-2))
                => /\ hlOut # OutAfter(k-1)
                   /\ Contains(hlOut, MarkOpen \o MarkOpen)
        /\ \A k \in 2..n :
              (k = n /\ vals[k] = TheMark /\ OutAfter(k-1) # hlText)
                => Contains(hlOut, <<"<">> \o MarkOpen \o TheMark \o MarkClose \o <<">">>)
        /\ (n = 2 /\ vals[1] # vals[2]
              /\ (\E p \in DOMAIN vals[2] : OccursAt(vals[2], vals[1], p))
              /\ (\E p \in DOMAIN hlText : OccursAt(hlText, vals[2], p)))
             => hlOut # highlight_entities(hlText, <<hlEntities[2], hlEntities[1]>>)
        /\ (n >= 1 /\ WordEdged(vals[n]) /\ hlOut # OutAfter(n - 1))
             => highlight_entities(hlOut, <<hlEntities[n]>>) # hlOut

\* C9 witness: "a" listed twice wraps the a of "a" twice.
C9_Witness ==
    /\ hlDone
    /\ hlText = <<"a">>
    /\ ValuesOf(hlEntities) = << <<"a">>, <<"a">> >>
    /\ hlOut = MarkOpen \o MarkOpen \o <<"a">> \o MarkClose \o MarkClose

\* C10: the history only grows, by one result at its end for each analysis
\* of a non-blank text, its earlier entries stay as they are, and the Recent
\* Analyses card shows its last three entries, the newest first.
C10_HistoryGrowsRecentLastThree ==
    [][/\ Len(history') >= Len(history)
       /\ Len(history') <= Len(history) + 1
       /\ SubSeq(history', 1, Len(history)) = history
       /\ (button' /\ ~IsBlank(text'))
            => /\ Len(history') = Len(history) + 1
               /\ history'[Len(history')].text = text'
       /\ (~button' \/ IsBlank(text')) => history' = history
       /\ Len(recent') = Min(3, Len(history'))
       /\ \A i \in DOMAIN recent' :
             recent'[i] = RecentLine(history'[Len(history') - i + 1])]_vars

\* C10 witness: four analyses made; the card shows the fourth, third and
\* second, and the first, a different text, is still first in the history.
C10_Witness ==
    /\ Len(history) = 4
    /\ Len(recent) = 3
    /\ recent[1] = RecentLine(history[4])
    /\ recent[3] = RecentLine(history[2])
    /\ RecentLine(history[1]) # RecentLine(history[2])
    /\ RecentLine(history[1]) # RecentLine(history[4])

====
